---- MODULE Spec2Model ----
(***************************************************************************)
(* A model of the EFT+ scheduling client (src/final.py): the per-server    *)
(* Timeline Model (class ServerSched, a heapq min-heap of                  *)
(* (end_time, cores_used) tuples), the placement decision (fast path and   *)
(* general path of main) and the line protocol the client speaks with the  *)
(* simulation server.                                                      *)
(*                                                                         *)
(* Two specifications share the module:                                    *)
(*   SpecTL  one ServerSched object driven by arbitrary add_job,           *)
(*           prune_to_time and earliest_start_for calls;                   *)
(*   Spec    a whole session of main(): one action per line the client     *)
(*           receives (or fails to receive), running the client up to its  *)
(*           next blocking read.                                           *)
(***************************************************************************)
EXTENDS Integers, Sequences, FiniteSets, TLC

(***************************************************************************)
(* Tuples (end_time, cores_used) and Python's order on them.               *)
(***************************************************************************)
TupleLt(a, b) == a[1] < b[1] \/ (a[1] = b[1] /\ a[2] < b[2])

(***************************************************************************)
(* heapq, on a 1-based sequence: position p of the Python list is h[p+1].  *)
(***************************************************************************)
RECURSIVE SiftDown(_, _, _, _)
\* heapq._siftdown(heap, startpos, pos) with newitem carried along.
SiftDown(h, startpos, pos, newitem) ==
    IF pos > startpos
    THEN LET parentpos == (pos - 1) \div 2
             parent    == h[parentpos + 1]
         IN IF TupleLt(newitem, parent)
            THEN SiftDown([h EXCEPT ![pos + 1] = parent], startpos, parentpos, newitem)
            ELSE [h EXCEPT ![pos + 1] = newitem]
    ELSE [h EXCEPT ![pos + 1] = newitem]

RECURSIVE SiftUpLoop(_, _, _)
\* The while loop of heapq._siftup: bubble the smaller child up until a leaf;
\* the result is the heap and the leaf position reached.
SiftUpLoop(h, pos, endpos) ==
    LET childpos == 2 * pos + 1
    IN IF childpos < endpos
       THEN LET rightpos == childpos + 1
                c == IF rightpos < endpos /\ ~TupleLt(h[childpos + 1], h[rightpos + 1])
                     THEN rightpos ELSE childpos
            IN SiftUpLoop([h EXCEPT ![pos + 1] = h[c + 1]], c, endpos)
       ELSE [heap |-> h, pos |-> pos]

\* heapq._siftup(heap, pos)
SiftUp(h, pos) ==
    LET newitem == h[pos + 1]
        r       == SiftUpLoop(h, pos, Len(h))
    IN SiftDown(r.heap, pos, r.pos, newitem)

\* heapq.heappush(heap, item)
HeapPush(h, item) == SiftDown(Append(h, item), 0, Len(h), item)

\* Variant: the last element moved to the root and left there.
HeapPop_NoSift(h) ==
    LET lastelt == h[Len(h)]
        rest    == SubSeq(h, 1, Len(h) - 1)
    IN IF rest # <<>> THEN [rest EXCEPT ![1] = lastelt] ELSE rest

\* heapq.heappop(heap), the heap it leaves (the popped item is not used)
HeapPop(h) ==
    LET lastelt == h[Len(h)]
        rest    == SubSeq(h, 1, Len(h) - 1)
    IN IF rest # <<>> THEN SiftUp([rest EXCEPT ![1] = lastelt], 0) ELSE rest

(***************************************************************************)
(* class ServerSched                                                       *)
(***************************************************************************)
RECURSIVE prune_to_time_Strict(_, _)
\* Variant: entries ending exactly at now are kept.
prune_to_time_Strict(heap, now) ==
    IF heap # <<>> /\ heap[1][1] < now
    THEN prune_to_time_Strict(HeapPop(heap), now)
    ELSE heap

RECURSIVE prune_to_time(_, _)
prune_to_time(heap, now) ==
    IF heap # <<>> /\ heap[1][1] <= now
    THEN prune_to_time(HeapPop(heap), now)
    ELSE heap

RECURSIVE SumCores(_, _)
SumCores(heap, i) == IF i > Len(heap) THEN 0 ELSE heap[i][2] + SumCores(heap, i + 1)

running_cores(heap) == SumCores(heap, 1)

RECURSIVE InsertSorted(_, _)
InsertSorted(s, x) ==
    IF s = <<>> THEN <<x>>
    ELSE IF TupleLt(x, s[1]) THEN <<x>> \o s
    ELSE <<s[1]>> \o InsertSorted(Tail(s), x)

RECURSIVE Sorted(_)
\* sorted(self.heap)
Sorted(heap) == IF heap = <<>> THEN <<>> ELSE InsertSorted(Sorted(Tail(heap)), heap[1])

RECURSIVE ReleaseLoop(_, _, _, _, _)
RECURSIVE ReleaseLoop_TestBeforeRelease(_, _, _, _, _)
\* ReleaseLoop with the test made before the entry's cores are released
ReleaseLoop_TestBeforeRelease(tmp, i, t, avail_now, c_need) ==
    IF i > Len(tmp) THEN t
    ELSE LET t2 == IF tmp[i][1] > t THEN tmp[i][1] ELSE t
         IN IF avail_now >= c_need THEN t2
            ELSE ReleaseLoop_TestBeforeRelease(tmp, i + 1, t2, avail_now + tmp[i][2], c_need)

\* for end_t, c in tmp: ... of earliest_start_for, from index i on
ReleaseLoop(tmp, i, t, avail_now, c_need) ==
    IF i > Len(tmp) THEN t
    ELSE LET t2 == IF tmp[i][1] > t THEN tmp[i][1] ELSE t
             a2 == avail_now + tmp[i][2]
         IN IF a2 >= c_need THEN t2 ELSE ReleaseLoop(tmp, i + 1, t2, a2, c_need)

\* earliest_start_for giving up with now when no prefix of releases suffices
earliest_start_for_GiveUpNow(cores_total, heap, now, c_need) ==
    LET pruned == prune_to_time(heap, now)
        avail  == cores_total - running_cores(pruned)
    IN [heap |-> pruned,
        t    |-> IF avail >= c_need \/ cores_total < c_need THEN now
                 ELSE ReleaseLoop(Sorted(pruned), 1, now, avail, c_need)]

\* earliest_start_for(now, c_need): the time returned and the heap it leaves
earliest_start_for(cores_total, heap, now, c_need) ==
    LET pruned == prune_to_time(heap, now)
        avail  == cores_total - running_cores(pruned)
    IN [heap |-> pruned,
        t    |-> IF avail >= c_need THEN now
                 ELSE ReleaseLoop(Sorted(pruned), 1, now, avail, c_need)]

\* add_job(start_t, c_need, est): the heap it leaves
add_job(heap, start_t, c_need, est) == HeapPush(heap, <<start_t + est, c_need>>)

(***************************************************************************)
(* State.  tl*: one ServerSched object on its own (SpecTL).  The rest is   *)
(* the state of main() during a session (Spec).                            *)
(***************************************************************************)
VARIABLES
    tlCap,          \* ServerSched.cores_total
    tlHeap,         \* ServerSched.heap
    tlOp,           \* the last call made on the object, its arguments and result
    catalog,        \* "present" | "absent": what read_system_info found
    pc,             \* the read the client is blocked in, or "start", "done", "error"
    err,            \* the exception that ended the session, "" if none
    gets,           \* the GETS exchange in progress: [ctx, n]
    rows,           \* rows of gets_all / gets_capable received so far
    sched_by_srv,   \* (type, id) -> [cores_total, heap]
    now,            \* main's now
    job,            \* the JOBN being handled: [id, cores, est]
    caps,           \* main's caps
    choice,         \* the placement sent in SCHD: [path, stype, sid, start]
    sent,           \* the messages the client sent since its previous read
    hist            \* [event, jobs, schd, fits]: the last event kind, JOBN events so
                    \* far, SCHD messages since the last event, and whether every job
                    \* so far fitted the capacity of each of its candidates

tlvars == <<tlCap, tlHeap, tlOp>>
svars  == <<catalog, pc, err, gets, rows, sched_by_srv, now, job, caps, choice, sent, hist>>
vars   == <<tlvars, svars>>

(***************************************************************************)
(* Bounds of SpecTL.                                                       *)
(***************************************************************************)
TLMaxEntries == 3      \* add_job is called while the heap holds fewer entries
TLMaxTime    == 2      \* now, start_t and prune times range over 0..TLMaxTime
TLMaxEst     == 2      \* est ranges over 0..TLMaxEst
TLMaxCores   == 2      \* cores of an entry range over 1..TLMaxCores
TLMaxCap     == 2      \* cores_total ranges over 1..TLMaxCap

TLTimes == 0..TLMaxTime
TLNeeds == 1..(TLMaxCap + 1)     \* c_need of a query, beyond capacity included

TLInit ==
    /\ tlCap \in 1..TLMaxCap
    /\ tlHeap = <<>>
    /\ tlOp = [op |-> "new"]

\* ServerSched.add_job(start_t, c_need, est)
TLAddJob ==
    /\ \E start_t \in TLTimes, c \in 1..TLMaxCores, est \in 0..TLMaxEst :
          /\ Len(tlHeap) < TLMaxEntries
          /\ tlHeap' = add_job(tlHeap, start_t, c, est)
          /\ tlOp' = [op |-> "add_job", start |-> start_t, cores |-> c, est |-> est]
    /\ UNCHANGED <<tlCap, svars>>

\* ServerSched.prune_to_time(now)
TLPrune ==
    /\ \E t_now \in TLTimes :
          /\ tlHeap' = prune_to_time(tlHeap, t_now)
          /\ tlOp' = [op |-> "prune_to_time", now |-> t_now, pre |-> tlHeap]
    /\ UNCHANGED <<tlCap, svars>>

\* ServerSched.earliest_start_for(now, c_need)
TLQuery ==
    /\ \E t_now \in TLTimes, k \in TLNeeds :
          LET r == earliest_start_for(tlCap, tlHeap, t_now, k)
          IN /\ tlHeap' = r.heap
             /\ tlOp' = [op |-> "earliest_start_for", now |-> t_now, need |-> k,
                         t |-> r.t, pre |-> tlHeap, after_add |-> tlOp.op = "add_job"]
    /\ UNCHANGED <<tlCap, svars>>

\* ServerSched.running_cores()
TLRunning ==
    /\ tlOp' = [op |-> "running_cores", n |-> running_cores(tlHeap)]
    /\ UNCHANGED <<tlCap, tlHeap, svars>>

TLNext == TLAddJob \/ TLPrune \/ TLQuery \/ TLRunning

(***************************************************************************)
(* The session.  The remote system: its servers, what it may report.       *)
(***************************************************************************)
MaxJobs == 2        \* JOBN events of a session
MaxCaps == 2        \* rows of a reply to GETS Capable
MaxAll  == 1        \* rows of a reply to the widening GETS All

Servers == {<<"big", 0>>, <<"small", 0>>, <<"small", 1>>}

\* The cores an instance reports when none is in use.
FullCores == [big |-> 8, small |-> 4]

\* Python's order on the server type names.
StrLt(a, b) == a = "big" /\ b = "small"

\* (state, free cores reported, wJobs) of a row
RowKinds == {[state |-> "idle",     full |-> TRUE,  wJobs |-> 0],
             [state |-> "idle",     full |-> FALSE, wJobs |-> 0],
             [state |-> "active",   full |-> TRUE,  wJobs |-> 1],
             [state |-> "inactive", full |-> TRUE,  wJobs |-> 0]}

\* parse_server_row: the fields main reads
Row(srv, k) == [type |-> srv[1], id |-> srv[2], state |-> k.state,
                cores |-> IF k.full THEN FullCores[srv[1]] ELSE 0, wJobs |-> k.wJobs]

AllRows == {Row(srv, k) : srv \in Servers, k \in RowKinds}

\* Replies of n rows, one row per server at most, in any order.
RowListsOf(n) == {l \in [1..n -> AllRows] :
                     \A i, j \in 1..n : i # j => <<l[i].type, l[i].id>> # <<l[j].type, l[j].id>>}

MaxRows == IF MaxCaps > MaxAll THEN MaxCaps ELSE MaxAll

RowLists == [n \in 0..MaxRows |-> RowListsOf(n)]

InactiveRow(srv) == Row(srv, [state |-> "inactive", full |-> TRUE, wJobs |-> 0])

\* Replies to the GETS All that follows the handshake.
InitLists == {<<InactiveRow(<<"big", 0>>), InactiveRow(<<"small", 0>>), InactiveRow(<<"small", 1>>)>>,
              <<InactiveRow(<<"big", 0>>), InactiveRow(<<"small", 0>>)>>}

\* What a JOBN carries (submit time, cores, estimate) and the times of JCPL
\* events; event times never decrease.
JobTimes   == {0, 100}
JobCores   == {2, 4}
JobEsts    == {50, 200}
EventTimes == {100, 200}

(***************************************************************************)
(* read_system_info: the catalog, when ds-system.xml is there.             *)
(***************************************************************************)
type_boot  == IF catalog = "present" THEN [big |-> 60, small |-> 0] ELSE <<>>
type_rate  == IF catalog = "present" THEN [big |-> 4,  small |-> 2] ELSE <<>>
type_cores == IF catalog = "present" THEN [big |-> 8,  small |-> 4] ELSE <<>>

fallback_boot_penalty == 80

\* type_cores.get(stype, s["cores"])
type_cores_get(stype, reported) ==
    IF stype \in DOMAIN type_cores THEN type_cores[stype] ELSE reported

\* type_boot.get(stype, args.fallback_boot_penalty)
type_boot_get(stype) ==
    IF stype \in DOMAIN type_boot THEN type_boot[stype] ELSE fallback_boot_penalty

\* args.cost_bias * type_rate.get(stype, 0.0) * j_est, in units of cost_bias
rate_bias(stype, j_est) ==
    (IF stype \in DOMAIN type_rate THEN type_rate[stype] ELSE 0) * j_est

\* Variant: only an active server is taken as ready.
state_penalty_seconds_ActiveOnly(state, boot_seconds) ==
    IF state = "active" THEN 0
    ELSE IF boot_seconds > 0 THEN boot_seconds ELSE 0

state_penalty_seconds(state, boot_seconds) ==
    IF state = "active" \/ state = "idle" THEN 0
    ELSE IF boot_seconds > 0 THEN boot_seconds ELSE 0

(***************************************************************************)
(* The placement decision of the JOBN branch.                              *)
(***************************************************************************)
\* instant = [s for s in caps if ...]
IsInstant(s, j_cores) ==
    s.state \in {"active", "idle"} /\ s.wJobs = 0 /\ s.cores >= j_cores

Instant(cs, j_cores) == SelectSeq(cs, LAMBDA s : IsInstant(s, j_cores))

\* (cores_total, type, id) < (cores_total, type, id)
KeyLt(a, b) ==
    \/ a[1] < b[1]
    \/ a[1] = b[1] /\ StrLt(a[2], b[2])
    \/ a[1] = b[1] /\ a[2] = b[2] /\ a[3] < b[3]

FastKey(s) == <<type_cores_get(s.type, s.cores), s.type, s.id>>

RECURSIVE MinKey_CapacityOnly(_, _, _)
\* Variant: keys compared on the capacity alone, the first of the smallest kept.
MinKey_CapacityOnly(instant, i, best) ==
    IF i > Len(instant) THEN best
    ELSE MinKey_CapacityOnly(instant, i + 1,
                IF FastKey(instant[i])[1] < best[1] THEN FastKey(instant[i]) ELSE best)

RECURSIVE MinKey(_, _, _)
\* min(..., key=...): the first of the smallest keys
MinKey(instant, i, best) ==
    IF i > Len(instant) THEN best
    ELSE MinKey(instant, i + 1,
                IF KeyLt(FastKey(instant[i]), best) THEN FastKey(instant[i]) ELSE best)

\* Variant: the first immediately runnable candidate of the list.
FastBest_First(instant) == FastKey(instant[1])

FastBest(instant) == MinKey(instant, 2, FastKey(instant[1]))

\* Variant: candidates compared on (finish, start) only.
CandLt_FinishStart(a, b) ==
    \/ a[1] < b[1]
    \/ a[1] = b[1] /\ a[2] < b[2]

\* (finish, start, rate_bias, cores_total, type, id) < (the same)
CandLt(a, b) ==
    \/ a[1] < b[1]
    \/ a[1] = b[1] /\ a[2] < b[2]
    \/ a[1] = b[1] /\ a[2] = b[2] /\ a[3] < b[3]
    \/ a[1] = b[1] /\ a[2] = b[2] /\ a[3] = b[3] /\ a[4] < b[4]
    \/ a[1] = b[1] /\ a[2] = b[2] /\ a[3] = b[3] /\ a[4] = b[4] /\ StrLt(a[5], b[5])
    \/ a[1] = b[1] /\ a[2] = b[2] /\ a[3] = b[3] /\ a[4] = b[4] /\ a[5] = b[5] /\ a[6] < b[6]

NoTuple == <<>>

\* Variant: every candidate gets a fresh model, held one or not.
WithModel_Reset(sbs, s) ==
    [k \in DOMAIN sbs \cup {<<s.type, s.id>>} |->
        IF k = <<s.type, s.id>>
        THEN [cores_total |-> type_cores_get(s.type, s.cores), heap |-> <<>>]
        ELSE sbs[k]]

\* sched = sched_by_srv.get(key); if not sched: sched = sched_by_srv[key] = ServerSched(...)
WithModel(sbs, s) ==
    IF <<s.type, s.id>> \in DOMAIN sbs THEN sbs
    ELSE sbs @@ (<<s.type, s.id>> :>
                   [cores_total |-> type_cores_get(s.type, s.cores), heap |-> <<>>])

\* cand of one iteration of the general path, given the start its model returned
Cand(s, t, j_est) ==
    LET start  == t + state_penalty_seconds(s.state, type_boot_get(s.type))
        finish == start + j_est
    IN <<finish, start, rate_bias(s.type, j_est), type_cores_get(s.type, s.cores),
         s.type, s.id>>

RECURSIVE GeneralLoop(_, _, _, _, _, _, _)
\* for s in caps: ... from index i on: the models and best_tuple it leaves
GeneralLoop(cs, i, sbs, best, t_now, j_cores, j_est) ==
    IF i > Len(cs) THEN [sbs |-> sbs, best |-> best]
    ELSE LET s    == cs[i]
             key  == <<s.type, s.id>>
             sbs1 == WithModel(sbs, s)
             r    == earliest_start_for(sbs1[key].cores_total, sbs1[key].heap, t_now, j_cores)
             sbs2 == [sbs1 EXCEPT ![key].heap = r.heap]
             cand == Cand(s, r.t, j_est)
         IN GeneralLoop(cs, i + 1, sbs2,
                        IF best = NoTuple \/ CandLt(cand, best) THEN cand ELSE best,
                        t_now, j_cores, j_est)

(***************************************************************************)
(* main(): the session.  The client blocks only in recv_line, so each      *)
(* action is one line arriving (or the read failing) and the client        *)
(* running up to its next read; sent lists what it sent on the way.        *)
(***************************************************************************)
NoGets   == [ctx |-> "", n |-> 0]
NoJob    == [id |-> -1, cores |-> 0, est |-> 0]
NoChoice == [path |-> "", stype |-> "", sid |-> -1, start |-> -1]
NoModels == <<>>

Msg(m)               == [m |-> m, job |-> -1, stype |-> "", sid |-> -1]
Schd(id, stype, sid) == [m |-> "SCHD", job |-> id, stype |-> stype, sid |-> sid]

Blocking == {"helo", "auth", "hdr", "rows", "dot", "event", "schd", "quit"}

SInit ==
    /\ catalog \in {"present", "absent"}
    /\ pc = "start"
    /\ err = ""
    /\ gets = NoGets
    /\ rows = <<>>
    /\ sched_by_srv = NoModels
    /\ now = 0
    /\ job = NoJob
    /\ caps = <<>>
    /\ choice = NoChoice
    /\ sent = <<>>
    /\ hist = [event |-> "", jobs |-> 0, schd |-> 0, fits |-> TRUE]

\* An exception leaves main through the finally clause: nothing more is sent,
\* and the locals of the handler that raised are gone.
Raise(e) ==
    /\ pc' = "error"
    /\ err' = e
    /\ sent' = <<>>
    /\ gets' = NoGets
    /\ rows' = <<>>
    /\ job' = NoJob
    /\ caps' = <<>>
    /\ choice' = NoChoice

\* send(fout, "HELO")
Start ==
    /\ pc = "start"
    /\ pc' = "helo"
    /\ sent' = <<Msg("HELO")>>
    /\ UNCHANGED <<tlvars, catalog, err, gets, rows, sched_by_srv, now, job, caps, choice, hist>>

\* Variant: a closed connection makes the client start over with HELO.
RecvClosed_Reconnect ==
    /\ pc \in Blocking
    /\ pc' = "helo"
    /\ sent' = <<Msg("HELO")>>
    /\ UNCHANGED <<tlvars, catalog, err, gets, rows, sched_by_srv, now, job, caps, choice, hist>>

\* recv_line: readline() returned "" (the remote closed)
RecvClosed ==
    /\ pc \in Blocking
    /\ Raise("ConnectionError")
    /\ UNCHANGED <<tlvars, catalog, sched_by_srv, now, hist>>

\* Variant: the job is recorded before the reply to SCHD is looked at.
RecvUnexpected_Recorded ==
    /\ pc \in {"helo", "auth", "schd", "hdr", "dot"}
    /\ Raise("RuntimeError")
    /\ sched_by_srv' =
          IF pc = "schd" /\ <<choice.stype, choice.sid>> \in DOMAIN sched_by_srv
          THEN [sched_by_srv EXCEPT ![<<choice.stype, choice.sid>>].heap =
                   add_job(@, choice.start, job.cores, job.est)]
          ELSE sched_by_srv
    /\ UNCHANGED <<tlvars, catalog, now, hist>>

\* expect_ok got another line; gets_* got a header whose first word is not
\* DATA, or a line that is not "." after the rows
RecvUnexpected ==
    /\ pc \in {"helo", "auth", "schd", "hdr", "dot"}
    /\ Raise("RuntimeError")
    /\ UNCHANGED <<tlvars, catalog, sched_by_srv, now, hist>>

\* Variant: the acknowledged HELO is followed by GETS All, without AUTH.
HeloOk_SkipAuth ==
    /\ pc = "helo"
    /\ pc' = "hdr"
    /\ gets' = [ctx |-> "init", n |-> 0]
    /\ sent' = <<Msg("GETS All")>>
    /\ UNCHANGED <<tlvars, catalog, err, rows, sched_by_srv, now, job, caps, choice, hist>>

\* OK to HELO; send AUTH
HeloOk ==
    /\ pc = "helo"
    /\ pc' = "auth"
    /\ sent' = <<Msg("AUTH")>>
    /\ UNCHANGED <<tlvars, catalog, err, gets, rows, sched_by_srv, now, job, caps, choice, hist>>

\* OK to AUTH; gets_all sends GETS All
AuthOk ==
    /\ pc = "auth"
    /\ pc' = "hdr"
    /\ gets' = [ctx |-> "init", n |-> 0]
    /\ sent' = <<Msg("GETS All")>>
    /\ UNCHANGED <<tlvars, catalog, err, rows, sched_by_srv, now, job, caps, choice, hist>>

\* The exceptions of a line that cannot be taken apart: a missing field
\* (f[i], parts[i]) or a field that is not a number (int)
Malformed == {"IndexError", "ValueError"}

\* A header without a first word (blank) or "DATA" without a count: IndexError;
\* "DATA x" with x not a number: ValueError
HeaderMalformed ==
    /\ pc = "hdr"
    /\ \E e \in Malformed : Raise(e)
    /\ UNCHANGED <<tlvars, catalog, sched_by_srv, now, hist>>

\* The header DATA n of gets_all / gets_capable: send OK, and with n = 0 go
\* through the empty row loop and send the second OK
RecvHeader ==
    /\ pc = "hdr"
    /\ \E n \in CASE gets.ctx = "init"    -> {Len(l) : l \in InitLists}
                  [] gets.ctx = "capable" -> 0..MaxCaps
                  [] gets.ctx = "widen"   -> 0..MaxAll :
          /\ gets' = [gets EXCEPT !.n = n]
          /\ rows' = <<>>
          /\ IF n = 0
             THEN pc' = "dot" /\ sent' = <<Msg("OK"), Msg("OK")>>
             ELSE pc' = "rows" /\ sent' = <<Msg("OK")>>
    /\ UNCHANGED <<tlvars, catalog, err, sched_by_srv, now, job, caps, choice, hist>>

\* A row that parse_server_row will not take apart, as it is kept in rows;
\* the rows are parsed only after the "." (return [parse_server_row(r) ...])
BadRow(e) == [bad |-> e]

IsBad(r) == "bad" \in DOMAIN r

HasBad(rs) == \E i \in 1..Len(rs) : IsBad(rs[i])

\* The replies of gets.n rows the remote system may be sending
RowListsNow ==
    IF gets.ctx = "init" THEN {x \in InitLists : Len(x) = gets.n} ELSE RowLists[gets.n]

\* rows with one more line; after the last of the n rows send OK and read the
\* ".", else read the next row
RowTaken(r) ==
    /\ rows' = Append(rows, r)
    /\ IF Len(rows) + 1 = gets.n
       THEN pc' = "dot" /\ sent' = <<Msg("OK")>>
       ELSE pc' = "rows" /\ sent' = <<>>
    /\ UNCHANGED <<tlvars, catalog, err, gets, sched_by_srv, now, job, caps, choice, hist>>

\* One row of the n rows: recv_line of the list comprehension
RecvRow ==
    /\ pc = "rows" /\ ~HasBad(rows)
    /\ \E l \in RowListsNow :
          /\ SubSeq(l, 1, Len(rows)) = rows
          /\ RowTaken(l[Len(rows) + 1])

\* One row with a field missing or not a number; the first such row decides
\* the exception, so the rows after it are kept as the same
RowMalformed ==
    /\ pc = "rows"
    /\ IF HasBad(rows) THEN RowTaken(rows[Len(rows)])
       ELSE \E e \in Malformed : RowTaken(BadRow(e))

\* The "." after rows of which one cannot be parsed: parse_server_row raises
DotMalformed ==
    /\ pc = "dot" /\ HasBad(rows)
    /\ Raise(rows[Len(rows)].bad)
    /\ UNCHANGED <<tlvars, catalog, sched_by_srv, now, hist>>

RECURSIVE InitModels(_, _, _)
\* for s in gets_all(...): sched_by_srv[(type, id)] = ServerSched(tot)
InitModels(rs, i, sbs) ==
    IF i > Len(rs) THEN sbs
    ELSE LET s   == rs[i]
             key == <<s.type, s.id>>
             m   == [cores_total |-> type_cores_get(s.type, s.cores), heap |-> <<>>]
         IN InitModels(rs, i + 1,
                       IF key \in DOMAIN sbs THEN [sbs EXCEPT ![key] = m]
                       ELSE sbs @@ (key :> m))

\* The capacity a candidate row stands for: its model's, or what a new model gets
CapOf(sbs, s) ==
    IF <<s.type, s.id>> \in DOMAIN sbs THEN sbs[<<s.type, s.id>>].cores_total
    ELSE type_cores_get(s.type, s.cores)

Fits(cs) == \A i \in 1..Len(cs) : job.cores <= CapOf(sched_by_srv, cs[i])

\* The JOBN branch once caps is final: fast path, else general path, up to the
\* read of the reply to SCHD
Decide(cs) ==
    LET instant == Instant(cs, job.cores)
    IN IF instant # <<>>
       THEN LET best == FastBest(instant)
            IN /\ choice' = [path |-> "fast", stype |-> best[2], sid |-> best[3],
                             start |-> now]
               /\ sent' = <<Schd(job.id, best[2], best[3])>>
               /\ pc' = "schd"
               /\ caps' = cs
               /\ hist' = [hist EXCEPT !.schd = @ + 1, !.fits = @ /\ Fits(cs)]
               /\ gets' = NoGets
               /\ rows' = <<>>
               /\ UNCHANGED <<err, sched_by_srv, job>>
       ELSE LET r == GeneralLoop(cs, 1, sched_by_srv, NoTuple, now, job.cores, job.est)
            IN /\ sched_by_srv' = r.sbs
               /\ IF r.best = NoTuple
                  THEN \* _, chosen_start, _, _, stype, sid = None
                       /\ Raise("TypeError")
                       /\ UNCHANGED hist
                  ELSE /\ choice' = [path |-> "general", stype |-> r.best[5],
                                     sid |-> r.best[6], start |-> r.best[2]]
                       /\ sent' = <<Schd(job.id, r.best[5], r.best[6])>>
                       /\ pc' = "schd"
                       /\ caps' = cs
                       /\ hist' = [hist EXCEPT !.schd = @ + 1, !.fits = @ /\ Fits(cs)]
                       /\ gets' = NoGets
                       /\ rows' = <<>>
                       /\ UNCHANGED <<err, job>>

\* The "." ending gets_all after the handshake: build the models, send REDY
DotInit ==
    /\ pc = "dot" /\ gets.ctx = "init" /\ ~HasBad(rows)
    /\ sched_by_srv' = InitModels(rows, 1, sched_by_srv)
    /\ now' = 0
    /\ rows' = <<>>
    /\ gets' = NoGets
    /\ pc' = "event"
    /\ sent' = <<Msg("REDY")>>
    /\ UNCHANGED <<tlvars, catalog, err, job, caps, choice, hist>>

\* The "." ending gets_capable with rows: decide and send SCHD
DotCapable ==
    /\ pc = "dot" /\ gets.ctx = "capable" /\ rows # <<>> /\ ~HasBad(rows)
    /\ Decide(rows)
    /\ UNCHANGED <<tlvars, catalog, now>>

\* The "." ending gets_capable without rows: widen with gets_all
DotWiden ==
    /\ pc = "dot" /\ gets.ctx = "capable" /\ rows = <<>>
    /\ caps' = <<>>
    /\ gets' = [ctx |-> "widen", n |-> 0]
    /\ pc' = "hdr"
    /\ sent' = <<Msg("GETS All")>>
    /\ UNCHANGED <<tlvars, catalog, err, rows, sched_by_srv, now, job, choice, hist>>

\* The "." ending the widening gets_all: decide and send SCHD
DotWidened ==
    /\ pc = "dot" /\ gets.ctx = "widen" /\ ~HasBad(rows)
    /\ Decide(rows)
    /\ UNCHANGED <<tlvars, catalog, now>>

\* Variant: the fast path without its continue, falling into the general path
\* after recording the job.
SchdOk_NoContinue ==
    /\ pc = "schd"
    /\ LET key == <<choice.stype, choice.sid>>
       IN IF key \notin DOMAIN sched_by_srv
          THEN /\ Raise("KeyError")
               /\ UNCHANGED <<sched_by_srv, hist>>
          ELSE LET sbs == [sched_by_srv EXCEPT ![key].heap =
                              add_job(@, choice.start, job.cores, job.est)]
                   r   == GeneralLoop(caps, 1, sbs, NoTuple, now, job.cores, job.est)
               IN IF choice.path = "fast"
                  THEN /\ sched_by_srv' = r.sbs
                       /\ choice' = [path |-> "general", stype |-> r.best[5],
                                     sid |-> r.best[6], start |-> r.best[2]]
                       /\ sent' = <<Schd(job.id, r.best[5], r.best[6])>>
                       /\ hist' = [hist EXCEPT !.schd = @ + 1]
                       /\ UNCHANGED <<pc, err, gets, rows, job, caps>>
                  ELSE /\ sched_by_srv' = sbs
                       /\ caps' = <<>>
                       /\ pc' = "event"
                       /\ sent' = <<Msg("REDY")>>
                       /\ UNCHANGED <<err, gets, rows, job, choice, hist>>
    /\ UNCHANGED <<tlvars, catalog, now>>

\* OK to SCHD: record the job (the fast path indexes sched_by_srv), send REDY
SchdOk ==
    /\ pc = "schd"
    /\ LET key == <<choice.stype, choice.sid>>
       IN IF key \notin DOMAIN sched_by_srv
          THEN \* sched_by_srv[(stype, sid)] raises KeyError
               /\ Raise("KeyError")
               /\ UNCHANGED sched_by_srv
          ELSE /\ sched_by_srv' =
                     [sched_by_srv EXCEPT ![key].heap =
                          add_job(@, choice.start, job.cores, job.est)]
               /\ caps' = <<>>
               /\ pc' = "event"
               /\ sent' = <<Msg("REDY")>>
               /\ UNCHANGED <<err, gets, rows, job, choice>>
    /\ UNCHANGED <<tlvars, catalog, now, hist>>

\* JOBN id submit cores mem disk est: gets_capable sends GETS Capable
EventJOBN ==
    /\ pc = "event" /\ hist.jobs < MaxJobs
    /\ \E t \in JobTimes, c \in JobCores, e \in JobEsts :
          /\ t >= now
          /\ now' = t
          /\ job' = [id |-> hist.jobs, cores |-> c, est |-> e]
    /\ hist' = [hist EXCEPT !.event = "JOBN", !.jobs = @ + 1, !.schd = 0]
    /\ choice' = NoChoice
    /\ gets' = [ctx |-> "capable", n |-> 0]
    /\ pc' = "hdr"
    /\ sent' = <<Msg("GETS Capable")>>
    /\ UNCHANGED <<tlvars, catalog, err, rows, sched_by_srv, caps>>

\* JCPL t jobID serverType serverID: prune that server's model, send REDY
\* Variant: a completion for a server without a model creates an empty one.
JCPL_CreatesModel(t, key) ==
    /\ pc = "event"
    /\ t >= now
    /\ now' = t
    /\ sched_by_srv' =
          IF key \in DOMAIN sched_by_srv
          THEN [sched_by_srv EXCEPT ![key].heap = prune_to_time(@, t)]
          ELSE sched_by_srv @@ (key :> [cores_total |-> FullCores[key[1]], heap |-> <<>>])
    /\ hist' = [hist EXCEPT !.event = "JCPL", !.schd = 0]
    /\ job' = NoJob
    /\ choice' = NoChoice
    /\ sent' = <<Msg("REDY")>>
    /\ UNCHANGED <<tlvars, catalog, pc, err, gets, rows, caps>>

\* The JCPL branch for the line "JCPL t jobID type id", key = (type, id)
JCPL(t, key) ==
    /\ pc = "event"
    /\ t >= now
    /\ now' = t
    /\ sched_by_srv' =
          IF key \in DOMAIN sched_by_srv
          THEN [sched_by_srv EXCEPT ![key].heap = prune_to_time(@, t)]
          ELSE sched_by_srv
    /\ hist' = [hist EXCEPT !.event = "JCPL", !.schd = 0]
    /\ job' = NoJob
    /\ choice' = NoChoice
    /\ sent' = <<Msg("REDY")>>
    /\ UNCHANGED <<tlvars, catalog, pc, err, gets, rows, caps>>

EventJCPL == \E t \in EventTimes, key \in Servers : JCPL(t, key)

\* NONE: send QUIT
EventNONE ==
    /\ pc = "event"
    /\ hist' = [hist EXCEPT !.event = "NONE", !.schd = 0]
    /\ job' = NoJob
    /\ choice' = NoChoice
    /\ pc' = "quit"
    /\ sent' = <<Msg("QUIT")>>
    /\ UNCHANGED <<tlvars, catalog, err, gets, rows, sched_by_srv, now, caps>>

\* Variant: any other event prunes every model to now.
EventOther_Prunes ==
    /\ pc = "event"
    /\ hist' = [hist EXCEPT !.event = "OTHER", !.schd = 0]
    /\ job' = NoJob
    /\ choice' = NoChoice
    /\ sent' = <<Msg("REDY")>>
    /\ sched_by_srv' = [k \in DOMAIN sched_by_srv |->
                           [sched_by_srv[k] EXCEPT !.heap = prune_to_time(@, now)]]
    /\ UNCHANGED <<tlvars, catalog, pc, err, gets, rows, now, caps>>

\* RESF, RESR, ...: send REDY
EventOther ==
    /\ pc = "event"
    /\ hist' = [hist EXCEPT !.event = "OTHER", !.schd = 0]
    /\ job' = NoJob
    /\ choice' = NoChoice
    /\ sent' = <<Msg("REDY")>>
    /\ UNCHANGED <<tlvars, catalog, pc, err, gets, rows, sched_by_srv, now, caps>>

\* An event line without a first word, or a JOBN or JCPL with a field missing
\* or not a number; now may have been assigned before the field that fails
EventMalformed ==
    /\ pc = "event"
    /\ \E e \in Malformed : Raise(e)
    /\ \E t \in {now} \cup {x \in JobTimes \cup EventTimes : x >= now} : now' = t
    /\ hist' = [hist EXCEPT !.event = "MALFORMED", !.schd = 0]
    /\ UNCHANGED <<tlvars, catalog, sched_by_srv>>

\* Variant: the line after QUIT is taken as one more event to answer with REDY.
QuitAck_Redy ==
    /\ pc = "quit"
    /\ pc' = "event"
    /\ sent' = <<Msg("REDY")>>
    /\ UNCHANGED <<tlvars, catalog, err, gets, rows, sched_by_srv, now, job, caps, choice, hist>>

\* The line after QUIT: break, close the socket
QuitAck ==
    /\ pc = "quit"
    /\ pc' = "done"
    /\ sent' = <<>>
    /\ UNCHANGED <<tlvars, catalog, err, gets, rows, sched_by_srv, now, job, caps, choice, hist>>

SNext ==
    \/ Start \/ RecvClosed \/ RecvUnexpected \/ HeloOk \/ AuthOk
    \/ RecvHeader \/ HeaderMalformed \/ RecvRow \/ RowMalformed \/ DotMalformed
    \/ DotInit \/ DotCapable \/ DotWiden \/ DotWidened
    \/ SchdOk \/ EventJOBN \/ EventJCPL \/ EventNONE \/ EventOther \/ EventMalformed
    \/ QuitAck

(***************************************************************************)
(* The two specifications.  Each leaves the other's variables alone.       *)
(***************************************************************************)
Init ==
    /\ SInit
    /\ tlCap = 1 /\ tlHeap = <<>> /\ tlOp = [op |-> "new"]

Spec == Init /\ [][SNext]_vars

\* The session with a remote system that answers every message as the protocol
\* says: no read fails, no reply is out of place or malformed.  The line after QUIT
\* arrives, so the client's last read returns.
SNextAnswered ==
    \/ Start \/ HeloOk \/ AuthOk
    \/ RecvHeader \/ RecvRow \/ DotInit \/ DotCapable \/ DotWiden \/ DotWidened
    \/ SchdOk \/ EventJOBN \/ EventJCPL \/ EventNONE \/ EventOther \/ QuitAck

SpecAnswered == Init /\ [][SNextAnswered]_vars /\ WF_vars(QuitAck)

InitTL ==
    /\ TLInit
    /\ catalog = "present" /\ pc = "start" /\ err = "" /\ gets = NoGets /\ rows = <<>>
    /\ sched_by_srv = NoModels /\ now = 0 /\ job = NoJob /\ caps = <<>>
    /\ choice = NoChoice /\ sent = <<>>
    /\ hist = [event |-> "", jobs |-> 0, schd |-> 0, fits |-> TRUE]

SpecTL == InitTL /\ [][TLNext]_vars

(***************************************************************************)
(* Properties of one Timeline Model (SpecTL).                              *)
(***************************************************************************)
RECURSIVE OccupiedAfter(_, _)
\* The cores of the entries whose end time exceeds t.
OccupiedAfter(heap, t) ==
    IF heap = <<>> THEN 0
    ELSE (IF heap[1][1] > t THEN heap[1][2] ELSE 0) + OccupiedAfter(Tail(heap), t)

FreeAt(cap, heap, t) == cap - OccupiedAfter(heap, t)

\* C2: a query earliest_start_for(now, k) with 1 <= k <= cores_total returns the
\* smallest time t >= now at which cores_total minus the cores of the entries
\* ending after t is at least k (the entries being those held before the call);
\* so a query right after add_job never returns a time before the recorded
\* occupancy has released enough cores.
C2_EarliestStartIsSmallest ==
    (tlOp.op = "earliest_start_for" /\ tlOp.need <= tlCap) =>
        /\ tlOp.t >= tlOp.now
        /\ FreeAt(tlCap, tlOp.pre, tlOp.t) >= tlOp.need
        /\ \A u \in tlOp.now..(tlOp.t - 1) : FreeAt(tlCap, tlOp.pre, u) < tlOp.need

\* A query right after add_job that has to wait for a release.
C2_Witness ==
    /\ tlOp.op = "earliest_start_for" /\ tlOp.need <= tlCap
    /\ tlOp.after_add
    /\ tlOp.t > tlOp.now
    /\ Len(tlOp.pre) >= 2

\* C3: for the heap reached, every now and every k (beyond capacity included),
\* earliest_start_for(now, k) <= earliest_start_for(now, k + 1), and adding one
\* more entry with add_job does not make earliest_start_for(now, k) smaller.
C3_Monotone ==
    \A t_now \in TLTimes, k \in TLNeeds :
        LET base == earliest_start_for(tlCap, tlHeap, t_now, k).t
        IN /\ base <= earliest_start_for(tlCap, tlHeap, t_now, k + 1).t
           /\ \A start_t \in TLTimes, c \in 1..TLMaxCores, est \in 0..TLMaxEst :
                 base <= earliest_start_for(tlCap, add_job(tlHeap, start_t, c, est),
                                            t_now, k).t

\* An over-committed heap on which a larger demand is answered later than a
\* smaller one, a demand beyond capacity gets the last release time, and one
\* more entry delays a demand.
C3_Witness ==
    /\ running_cores(tlHeap) > tlCap
    /\ \E t_now \in TLTimes, k \in 1..(tlCap - 1) :
          /\ earliest_start_for(tlCap, tlHeap, t_now, k).t
                < earliest_start_for(tlCap, tlHeap, t_now, k + 1).t
          /\ earliest_start_for(tlCap, tlHeap, t_now, tlCap + 1).t > t_now
          /\ \E start_t \in TLTimes, c \in 1..TLMaxCores, est \in 0..TLMaxEst :
                earliest_start_for(tlCap, tlHeap, t_now, tlCap + 1).t
                   < earliest_start_for(tlCap, add_job(tlHeap, start_t, c, est),
                                        t_now, tlCap + 1).t

(***************************************************************************)
(* Properties of a session (Spec).                                         *)
(***************************************************************************)
KeyOf(s) == <<s.type, s.id>>

EndTimes(heap) == {heap[i][1] : i \in DOMAIN heap}

Count(heap, e) == Cardinality({i \in DOMAIN heap : heap[i] = e})

\* C1: as long as every job placed so far demanded at most the capacity of each
\* of its candidates, every model's entries ending after t hold at most
\* cores_total cores, for every instant t >= now (the sum changes only at the
\* end times of entries, so these and now are the instants to look at).
C1_NeverOverCommitted ==
    hist.fits =>
        \A key \in DOMAIN sched_by_srv :
            \A t \in {now} \cup {e \in EndTimes(sched_by_srv[key].heap) : e >= now} :
                OccupiedAfter(sched_by_srv[key].heap, t) <= sched_by_srv[key].cores_total

\* What the specification calls immediately runnable.
SpecInstant(s) == s.state \in {"active", "idle"} /\ s.wJobs = 0 /\ s.cores >= job.cores

\* Total core capacity of a candidate: the catalog's count for its type, the
\* reported per-instance value when the catalog does not know the type.
SpecCapacity(s) ==
    IF catalog = "present" THEN (IF s.type = "big" THEN 8 ELSE 4) ELSE s.cores

\* Lexicographic order on tuples of length n whose field sp is a type name and
\* whose other fields are numbers.
SpecLexLt(a, b, n, sp) ==
    \E i \in 1..n :
        /\ \A j \in 1..(i - 1) : a[j] = b[j]
        /\ IF i = sp THEN StrLt(a[i], b[i]) ELSE a[i] < b[i]

\* C4: when some candidate is immediately runnable, the SCHD target is the
\* immediately runnable candidate with the smallest (capacity, type, id), and
\* the placement is the fast path's (start now, no general-path evaluation).
C4_FastPathSmallest ==
    (pc = "schd" /\ \E i \in 1..Len(caps) : SpecInstant(caps[i])) =>
        /\ choice.path = "fast"
        /\ choice.start = now
        /\ sent = <<Schd(job.id, choice.stype, choice.sid)>>
        /\ \E i \in 1..Len(caps) :
              /\ SpecInstant(caps[i])
              /\ KeyOf(caps[i]) = <<choice.stype, choice.sid>>
              /\ \A j \in 1..Len(caps) :
                    (SpecInstant(caps[j]) /\ j # i) =>
                        SpecLexLt(<<SpecCapacity(caps[i]), caps[i].type, caps[i].id>>,
                                  <<SpecCapacity(caps[j]), caps[j].type, caps[j].id>>, 3, 2)

\* Two immediately runnable candidates of different capacity, the larger listed
\* first, and a tie in capacity decided by the id.
C4_Witness ==
    /\ pc = "schd" /\ choice.path = "fast" /\ Len(caps) = 2
    /\ SpecInstant(caps[1]) /\ SpecInstant(caps[2])
    /\ \/ SpecCapacity(caps[1]) > SpecCapacity(caps[2])
       \/ (caps[1].type = caps[2].type /\ caps[1].id > caps[2].id)
    /\ KeyOf(caps[2]) = <<choice.stype, choice.sid>>

\* The start and the candidate tuple the specification gives a candidate, from
\* its model as the general path leaves it.
SpecPenalty(s) ==
    IF s.state \in {"active", "idle"} THEN 0
    ELSE IF catalog = "present" THEN (IF s.type = "big" THEN 60 ELSE 0)
    ELSE 80

SpecModelStart(s) ==
    earliest_start_for(sched_by_srv[KeyOf(s)].cores_total, sched_by_srv[KeyOf(s)].heap,
                       now, job.cores).t

SpecStart(s) == SpecModelStart(s) + SpecPenalty(s)

SpecRate(s) == IF catalog = "present" THEN (IF s.type = "big" THEN 4 ELSE 2) ELSE 0

SpecTuple(s) ==
    <<SpecStart(s) + job.est, SpecStart(s), SpecRate(s) * job.est, SpecCapacity(s),
      s.type, s.id>>

\* C5: when no candidate is immediately runnable, the SCHD target is the
\* candidate whose tuple (finish, start, costBias, capacity, type, id) is
\* strictly below every other candidate's; in particular among candidates equal
\* in the first four fields the smaller (type, id) wins.
C5_GeneralPathMinimum ==
    (pc = "schd" /\ \A i \in 1..Len(caps) : ~SpecInstant(caps[i])) =>
        /\ choice.path = "general"
        /\ sent = <<Schd(job.id, choice.stype, choice.sid)>>
        /\ \E i \in 1..Len(caps) :
              /\ KeyOf(caps[i]) = <<choice.stype, choice.sid>>
              /\ \A j \in 1..Len(caps) :
                    j # i => SpecLexLt(SpecTuple(caps[i]), SpecTuple(caps[j]), 6, 5)

\* Two candidates equal in finish, start, costBias and capacity, the larger
\* (type, id) listed first, the smaller chosen.
C5_Witness ==
    /\ pc = "schd" /\ choice.path = "general" /\ Len(caps) = 2
    /\ \A k \in 1..4 : SpecTuple(caps[1])[k] = SpecTuple(caps[2])[k]
    /\ SpecLexLt(<<caps[2].type, caps[2].id>>, <<caps[1].type, caps[1].id>>, 2, 1)
    /\ KeyOf(caps[2]) = <<choice.stype, choice.sid>>

\* C6: on the general path the chosen start is the target's model start plus its
\* readiness penalty (0 when active or idle, else the type's boot time, 80 when
\* the catalog does not know the type), no candidate would finish before
\* start + estimate, and once SCHD is acknowledged the target's model holds an
\* entry ending at start + estimate.  In particular at time 100, for an
\* estimate of 50, an inactive server of boot time 60 whose model has the cores
\* free, listed with one idle server whose model frees them after 160, is
\* chosen with start 160, and the entry recorded ends at 210.
C6_StartAndFinish ==
    /\ (pc = "schd" /\ choice.path = "general") =>
          /\ \E i \in 1..Len(caps) :
                /\ KeyOf(caps[i]) = <<choice.stype, choice.sid>>
                /\ choice.start = SpecStart(caps[i])
          /\ \A j \in 1..Len(caps) : choice.start + job.est <= SpecStart(caps[j]) + job.est
          /\ \A i, j \in 1..Len(caps) :
                (/\ Len(caps) = 2 /\ i # j /\ now = 100 /\ job.est = 50
                 /\ caps[i].state = "inactive" /\ SpecPenalty(caps[i]) = 60
                 /\ SpecModelStart(caps[i]) = 100
                 /\ caps[j].state = "idle" /\ SpecModelStart(caps[j]) > 160)
                => (/\ KeyOf(caps[i]) = <<choice.stype, choice.sid>>
                    /\ choice.start = 160)
    /\ (pc = "event" /\ hist.event = "JOBN" /\ choice.path = "general") =>
          Count(sched_by_srv[<<choice.stype, choice.sid>>].heap,
                <<choice.start + job.est, job.cores>>) >= 1

\* Scenario B: big (inactive, boot 60) against small (idle, busy past 160).
C6_Witness ==
    /\ pc = "schd" /\ choice.path = "general" /\ Len(caps) = 2
    /\ now = 100 /\ job.est = 50 /\ job.cores = 2
    /\ \E i, j \in 1..2 :
          /\ caps[i].type = "big" /\ caps[i].state = "inactive"
          /\ caps[j].type = "small" /\ caps[j].state = "idle"
          /\ SpecModelStart(caps[j]) > 160
    /\ choice.stype = "big" /\ choice.start = 160 /\ choice.start + job.est = 210

\* C7: a step that takes the acknowledgment of a fast-path SCHD for a job
\* (T, E, C) adds exactly the entry (T + E, C) to the target's model, leaves the
\* other models alone and returns to Ready (REDY sent, next event awaited),
\* whichever server the remote system reported, tracked before or not.
C7_FastPathRecorded ==
    [][(SchdOk /\ choice.path = "fast") =>
          LET key == <<choice.stype, choice.sid>>
              old == IF key \in DOMAIN sched_by_srv THEN sched_by_srv[key].heap ELSE <<>>
          IN /\ pc' = "event"
             /\ sent' = <<Msg("REDY")>>
             /\ key \in DOMAIN sched_by_srv'
             /\ Len(sched_by_srv'[key].heap) = Len(old) + 1
             /\ \A e \in EndTimes(sched_by_srv'[key].heap) \X JobCores :
                   Count(sched_by_srv'[key].heap, e) =
                      Count(old, e) + (IF e = <<now + job.est, job.cores>> THEN 1 ELSE 0)
             /\ \A k \in DOMAIN sched_by_srv \ {key} :
                   k \in DOMAIN sched_by_srv' /\ sched_by_srv'[k] = sched_by_srv[k]]_vars

\* The acknowledged fast-path SCHD for a server that has no model: KeyError.
C7_Witness == pc = "error" /\ err = "KeyError"

\* C8: a SCHD is sent only while a JOBN is handled, at most once per JOBN and
\* exactly once before the REDY that follows it; it carries the job's id and a
\* (type, id) of the candidate list received for that job.
C8_OneSchdPerJob ==
    /\ hist.event # "JOBN" => hist.schd = 0
    /\ hist.schd <= 1
    /\ (\E i \in 1..Len(sent) : sent[i].m = "SCHD") => (pc = "schd" /\ hist.event = "JOBN")
    /\ pc = "schd" =>
          /\ hist.schd = 1
          /\ Len(sent) = 1 /\ sent[1].m = "SCHD" /\ sent[1].job = job.id
          /\ \E i \in 1..Len(caps) : KeyOf(caps[i]) = <<sent[1].stype, sent[1].sid>>
    /\ (pc = "event" /\ hist.event = "JOBN") => (hist.schd = 1 /\ sent = <<Msg("REDY")>>)

\* The REDY that follows the acknowledged SCHD of a second job, placed by the
\* general path.
C8_Witness ==
    /\ pc = "event" /\ hist.event = "JOBN" /\ hist.jobs = 2 /\ hist.schd = 1
    /\ sent = <<Msg("REDY")>>
    /\ choice.path = "general"

\* C9: the "." that ends the widening GETS All is followed by a placement: the
\* client sends one SCHD and waits for its acknowledgment, whatever the list.
C9_WideningAlwaysPlaces ==
    [][DotWidened => (pc' = "schd" /\ Len(sent') = 1 /\ sent'[1].m = "SCHD")]_vars

\* The widening GETS All answered with an empty list: TypeError.
C9_Witness == pc = "error" /\ err = "TypeError"

\* C10: the client sends at most one message between two reads.
C10_StrictAlternation == Len(sent) <= 1

RECURSIVE TotalEntriesOf(_, _)
\* The number of entries the models of the servers in keys hold together.
TotalEntriesOf(sbs, keys) ==
    IF keys = {} THEN 0
    ELSE LET k == CHOOSE x \in keys : TRUE
         IN Len(sbs[k].heap) + TotalEntriesOf(sbs, keys \ {k})

TotalEntries == TotalEntriesOf(sched_by_srv, DOMAIN sched_by_srv)

\* C11: a step in which the remote closes where a line is expected, or answers
\* HELO, AUTH or SCHD with something other than OK, or sends a GETS header that
\* is not DATA, or a line other than "." as terminator, ends the session: the
\* client sends nothing in that step, no model changes, and from the aborted
\* session no further step is taken (nothing sent, nothing retried, no entry
\* added).  A header, row or event line that cannot be taken apart ends the
\* session in the same way, with another exception.
C11_ViolationAborts ==
    [][/\ (RecvClosed \/ RecvUnexpected) =>
             /\ pc' = "error"
             /\ err' \in {"ConnectionError", "RuntimeError"}
             /\ sent' = <<>>
             /\ sched_by_srv' = sched_by_srv
       /\ (HeaderMalformed \/ DotMalformed \/ EventMalformed) =>
             /\ pc' = "error"
             /\ err' \in Malformed
             /\ sent' = <<>>
             /\ sched_by_srv' = sched_by_srv
       /\ pc # "error"]_vars

\* A missing terminator during the GETS Capable of the first job: the session
\* is over before any SCHD, and no model holds an entry.
C11_Witness ==
    /\ pc = "error" /\ err = "RuntimeError"
    /\ hist.event = "JOBN" /\ hist.jobs = 1 /\ hist.schd = 0
    /\ sent = <<>>
    /\ DOMAIN sched_by_srv # {} /\ TotalEntries = 0

\* C12: with a remote system that answers as the protocol says, once NONE has
\* been received the session reaches Terminated; on NONE the client sends
\* exactly one QUIT, takes one more line and then sends nothing and takes no
\* further step; and a QUIT is only ever sent on a NONE.
C12_Termination ==
    /\ []((\E i \in 1..Len(sent) : sent[i].m = "QUIT") =>
             (pc = "quit" /\ hist.event = "NONE" /\ sent = <<Msg("QUIT")>>))
    /\ [](pc = "done" => (sent = <<>> /\ hist.event = "NONE"))
    /\ [][/\ EventNONE => (pc' = "quit" /\ sent' = <<Msg("QUIT")>>)
          /\ pc = "quit" => (pc' = "done" /\ sent' = <<>>)
          /\ pc # "done"]_vars
    /\ (hist.event = "NONE" ~> pc = "done")

\* Terminated after two jobs were placed.
C12_Witness ==
    /\ pc = "done" /\ err = "" /\ hist.event = "NONE"
    /\ hist.jobs = 2 /\ TotalEntries >= 1

\* The entries a heap holds.
Entries(heap) == {heap[i] : i \in DOMAIN heap}

\* C13: the step taken on JCPL with time t for server key removes from that
\* server's model exactly the entries ending at or before t, keeps the others
\* and the capacity, leaves every other model and the set of models as they
\* were, and has the client send REDY and wait for the next event; for a server
\* without a model nothing changes.
C13_CompletionPrunesOnly ==
    [][\A t \in EventTimes, key \in Servers :
          JCPL(t, key) =>
             /\ pc' = "event" /\ sent' = <<Msg("REDY")>>
             /\ DOMAIN sched_by_srv' = DOMAIN sched_by_srv
             /\ \A k \in DOMAIN sched_by_srv \ {key} : sched_by_srv'[k] = sched_by_srv[k]
             /\ key \in DOMAIN sched_by_srv =>
                   /\ sched_by_srv'[key].cores_total = sched_by_srv[key].cores_total
                   /\ \A e \in Entries(sched_by_srv[key].heap)
                                 \cup Entries(sched_by_srv'[key].heap) :
                         Count(sched_by_srv'[key].heap, e) =
                            IF e[1] > t THEN Count(sched_by_srv[key].heap, e) ELSE 0]_vars

\* After a JCPL at time 100: of two jobs placed at time 0, one entry (ending
\* after 100) is left, and one server still has no model.
C13_Witness ==
    /\ pc = "event" /\ hist.event = "JCPL" /\ now = 100
    /\ hist.jobs = 2 /\ TotalEntries = 1
    /\ \E k \in DOMAIN sched_by_srv : \E e \in Entries(sched_by_srv[k].heap) : e[1] > 100
    /\ DOMAIN sched_by_srv # Servers

\* C14: after prune_to_time(t) the heap holds no entry ending at or before t,
\* and every entry that ended after t before the call is held as often as
\* before, with its cores.
C14_PruneExact ==
    tlOp.op = "prune_to_time" =>
        /\ \A i \in DOMAIN tlHeap : tlHeap[i][1] > tlOp.now
        /\ \A e \in Entries(tlOp.pre) \cup Entries(tlHeap) :
              Count(tlHeap, e) = IF e[1] > tlOp.now THEN Count(tlOp.pre, e) ELSE 0

\* A prune that removed two entries, one of them ending exactly at t, and kept
\* one.
C14_Witness ==
    /\ tlOp.op = "prune_to_time"
    /\ Len(tlOp.pre) = 3 /\ Len(tlHeap) = 1
    /\ \E i \in DOMAIN tlOp.pre : tlOp.pre[i][1] = tlOp.now

\* The end times of a heap's entries in non-decreasing order.
EndsInOrder(heap) == [i \in 1..Len(heap) |-> Sorted(heap)[i][1]]

RECURSIVE PruneAtEach(_, _)
\* prune_to_time called at each time of ts in turn: the heap left.
PruneAtEach(heap, ts) ==
    IF ts = <<>> THEN heap
    ELSE PruneAtEach(prune_to_time(heap, Head(ts)), Tail(ts))

\* C15: whatever entries add_job has put into the heap, calling prune_to_time
\* at each entry's exact end time, in non-decreasing order, leaves a heap on
\* which running_cores() is 0.
C15_RoundTrip ==
    running_cores(PruneAtEach(tlHeap, EndsInOrder(tlHeap))) = 0

\* Three entries just added, over capacity, ending at two or more different
\* times, all gone after the prunes.
C15_Witness ==
    /\ tlOp.op = "add_job" /\ Len(tlHeap) = 3
    /\ running_cores(tlHeap) > tlCap
    /\ Cardinality(EndTimes(tlHeap)) >= 2
    /\ PruneAtEach(tlHeap, EndsInOrder(tlHeap)) = <<>>

\* C16: while the reply to a SCHD is awaited the models hold no entry for the
\* job (at most one entry per job placed before it), on either path; a step
\* from there that ends the session (reply not OK, connection closed) changes
\* no model, and only the step taking the OK changes one.
C16_RecordedAfterAck ==
    [][pc = "schd" =>
          /\ choice.path \in {"fast", "general"}
          /\ TotalEntries <= hist.jobs - 1
          /\ pc' = "error" => sched_by_srv' = sched_by_srv
          /\ sched_by_srv' # sched_by_srv => (SchdOk /\ pc' = "event")]_vars

\* The second job's SCHD was sent and not acknowledged: the
\* session is over and only the first job's entry is held.  At time 0 nothing
\* can have been pruned.
C16_Witness ==
    /\ pc = "error" /\ err \in {"RuntimeError", "ConnectionError"}
    /\ hist.event = "JOBN" /\ hist.jobs = 2 /\ hist.schd = 1
    /\ now = 0 /\ TotalEntries = 1

\* The kinds of the messages in a list of sent messages.
Kinds(ms) == {ms[i].m : i \in 1..Len(ms)}

\* C17: the first step sends HELO and nothing else; the step from there sends
\* AUTH on OK and nothing otherwise; the step after AUTH sends the first GETS
\* on OK and nothing otherwise; HELO and AUTH are sent in no other step, the
\* two failures end the session, and up to the acknowledgment of AUTH no REDY,
\* GETS or SCHD is sent.
C17_HandshakeOrder ==
    [][/\ pc = "start" => (pc' = "helo" /\ sent' = <<Msg("HELO")>>)
       /\ pc = "helo" => \/ HeloOk /\ pc' = "auth" /\ sent' = <<Msg("AUTH")>>
                         \/ pc' = "error" /\ sent' = <<>>
       /\ pc = "auth" => \/ AuthOk /\ pc' = "hdr" /\ sent' = <<Msg("GETS All")>>
                         \/ pc' = "error" /\ sent' = <<>>
       /\ "HELO" \in Kinds(sent') => pc = "start"
       /\ "AUTH" \in Kinds(sent') => pc = "helo"
       /\ pc \in {"start", "helo"} =>
             Kinds(sent') \cap {"REDY", "GETS All", "GETS Capable", "SCHD", "OK", "QUIT"} = {}
       /\ pc # "error"]_vars

\* The handshake done: AUTH was acknowledged and the first GETS All is out.
C17_Witness ==
    /\ pc = "hdr" /\ gets.ctx = "init" /\ sent = <<Msg("GETS All")>>
    /\ hist.jobs = 0 /\ sched_by_srv = NoModels

\* C18: the step taken on an event that is not JOBN, JCPL or NONE leaves the
\* models (their set, capacities and entries) as they were, sends REDY and
\* nothing else, and waits for the next event.
C18_OtherEventIgnored ==
    [][EventOther =>
          /\ sched_by_srv' = sched_by_srv
          /\ sent' = <<Msg("REDY")>>
          /\ pc' = "event"
          /\ now' = now]_vars

\* Another event taken at time 100 while a model holds an entry that ended
\* at 50: the entry is still there.
C18_Witness ==
    /\ pc = "event" /\ hist.event = "OTHER" /\ now = 100
    /\ sent = <<Msg("REDY")>>
    /\ \E k \in DOMAIN sched_by_srv : <<50, 2>> \in Entries(sched_by_srv[k].heap)

\* A list in the opposite order.
Reverse(s) == [i \in 1..Len(s) |-> s[Len(s) + 1 - i]]

\* C19: the step that decides on a candidate list (rows of distinct servers)
\* sends the SCHD target, and leaves the models and the start to record, that
\* the same catalog, models and job give for the list in the opposite order;
\* the acknowledgment then records the same entry.
C19_OrderIndependent ==
    [][(DotCapable \/ DotWidened) =>
          LET perm == Reverse(rows)
              inst == Instant(perm, job.cores)
              r    == GeneralLoop(perm, 1, sched_by_srv, NoTuple, now, job.cores, job.est)
          IN IF inst # <<>>
             THEN /\ sent' = <<Schd(job.id, FastBest(inst)[2], FastBest(inst)[3])>>
                  /\ choice'.start = now
                  /\ sched_by_srv' = sched_by_srv
             ELSE /\ sched_by_srv' = r.sbs
                  /\ IF r.best = NoTuple THEN pc' = "error"
                     ELSE /\ sent' = <<Schd(job.id, r.best[5], r.best[6])>>
                          /\ choice'.start = r.best[2]]_vars

\* A second job decided by the general path between two candidates that would
\* finish at the same time, the one listed second chosen.
C19_Witness ==
    /\ pc = "schd" /\ choice.path = "general" /\ hist.jobs = 2 /\ TotalEntries >= 1
    /\ Len(caps) = 2 /\ KeyOf(caps[1]) # KeyOf(caps[2])
    /\ KeyOf(caps[2]) = <<choice.stype, choice.sid>>
    /\ SpecTuple(caps[1])[1] = SpecTuple(caps[2])[1]

\* The servers a candidate list names.
KeysOf(cs) == {KeyOf(cs[i]) : i \in 1..Len(cs)}

\* C20: a general-path placement at time now.  The deciding step keeps every
\* model and its capacity; a candidate's model changes at most by losing
\* entries ending at or before now, a model of a server outside the list does
\* not change, and a model that appears is an empty one of a candidate.  The
\* step taking the acknowledgment adds exactly one entry
\* (chosen start + estimate, job cores) to the winner's model and changes
\* nothing else.
C20_GeneralPathEffect ==
    [][/\ ((DotCapable \/ DotWidened) /\ Instant(rows, job.cores) = <<>>) =>
             /\ \A k \in DOMAIN sched_by_srv :
                   /\ k \in DOMAIN sched_by_srv'
                   /\ sched_by_srv'[k].cores_total = sched_by_srv[k].cores_total
                   /\ IF k \in KeysOf(rows)
                      THEN \A e \in Entries(sched_by_srv[k].heap)
                                       \cup Entries(sched_by_srv'[k].heap) :
                              /\ Count(sched_by_srv'[k].heap, e) <= Count(sched_by_srv[k].heap, e)
                              /\ e[1] > now =>
                                    Count(sched_by_srv'[k].heap, e) = Count(sched_by_srv[k].heap, e)
                      ELSE sched_by_srv'[k] = sched_by_srv[k]
             /\ \A k \in DOMAIN sched_by_srv' \ DOMAIN sched_by_srv :
                   k \in KeysOf(rows) /\ sched_by_srv'[k].heap = <<>>
       /\ (SchdOk /\ choice.path = "general") =>
             LET key == <<choice.stype, choice.sid>>
             IN /\ pc' = "event"
                /\ key \in DOMAIN sched_by_srv
                /\ DOMAIN sched_by_srv' = DOMAIN sched_by_srv
                /\ \A k \in DOMAIN sched_by_srv \ {key} : sched_by_srv'[k] = sched_by_srv[k]
                /\ sched_by_srv'[key].cores_total = sched_by_srv[key].cores_total
                /\ Len(sched_by_srv'[key].heap) = Len(sched_by_srv[key].heap) + 1
                /\ \A e \in Entries(sched_by_srv'[key].heap) :
                      Count(sched_by_srv'[key].heap, e) =
                         Count(sched_by_srv[key].heap, e) +
                            (IF e = <<choice.start + job.est, job.cores>> THEN 1 ELSE 0)]_vars

\* A general-path placement recorded behind an entry still held: the winner's
\* model holds two entries, the new one starting after now.
C20_Witness ==
    /\ pc = "event" /\ hist.event = "JOBN" /\ choice.path = "general"
    /\ choice.start > now
    /\ Len(sched_by_srv[<<choice.stype, choice.sid>>].heap) = 2
    /\ <<choice.start + job.est, job.cores>>
          \in Entries(sched_by_srv[<<choice.stype, choice.sid>>].heap)

====
